---- MODULE Spec2Model ----
(***************************************************************************)
(* The streaming speech-translation engine of src/translation_engine.py    *)
(* and the two engines App.start_translation (src/main.py) runs against    *)
(* one shared threading.Event.                                             *)
(*                                                                         *)
(* Threads.  Each engine owns an asyncio event loop (one OS thread) that   *)
(* runs the processor and the playback coroutine cooperatively, and the    *)
(* audio driver calls the capture callback from a thread of its own.       *)
(* stop() is called from the GUI thread.  A coroutine step is therefore    *)
(* atomic with respect to the other coroutine of its loop, but not with    *)
(* respect to the callbacks, to stop(), or to the other engine.            *)
(***************************************************************************)
EXTENDS Integers, Sequences, FiniteSets, TLC

Engines == {"SENDER", "RECEIVER"}

(***************************************************************************)
(* Bounds of the model.                                                    *)
(***************************************************************************)
\* frames the input device delivers to a capturing engine
MaxFrames == 37
\* frames the VAD classifies as speech, per engine
MaxSpeech == 2
\* PCM chunks one TTS stream yields
MaxChunks == 2
\* utterances the segmenter has handed to the loop in the pipeline scenario
MaxUtterances == 2

\* calls of start() on one engine
MaxStarts == 2

(***************************************************************************)
(* Program constants.                                                      *)
(***************************************************************************)
frame_duration_ms == 30

SUCCESSIVE_SILENCE_LIMIT == 1000 \div frame_duration_ms

VARIABLES
    is_running,        \* [engine -> BOOLEAN]   self.is_running
    is_playing_audio,  \* [engine -> BOOLEAN]   self.is_playing_audio
    shared_event,      \* BOOLEAN               the threading.Event both engines share
    triggered,         \* [engine -> BOOLEAN]   VAD state of _audio_producer
    buffer,            \* [engine -> Seq(frame)]
    silence_counter,   \* [engine -> Nat]
    cb_pc,             \* [engine -> {"idle","body","skip"}] position of the capture
                       \*                  callback: not running, past the test of
                       \*                  is_running with True, or with False
    frame_no,          \* [engine -> Nat]  frames delivered so far (the frame's number)
    speech_no,         \* [engine -> Nat]  frames classified as speech so far
    budget,            \* [engine -> Nat]  frames the device delivers in this run
    lost,              \* [engine -> Nat]  number of the last buffered frame that an
                       \*                  interlock reset threw away, 0 when none was
    loop_calls,        \* [engine -> Seq(utterance)] call_soon_threadsafe(put_nowait, u) pending
    audio_queue,       \* [engine -> Seq(utterance)]
    prod_pc,           \* [engine -> pc of _audio_producer]
    proc_pc,           \* [engine -> pc of _processing_consumer]
    audio_data,        \* [engine -> utterance being processed]
    text,              \* [engine -> str or None] the processor's local text,
                       \*                  None before its first assignment
    translated_text,   \* [engine -> str] the processor's local translated_text
    tts_idx,           \* [engine -> chunks the current TTS stream has yielded]
    output_queue,      \* [engine -> Seq(chunk)]
    play_pc,           \* [engine -> pc of _playback_consumer]
    written,           \* [engine -> Seq(chunk)] chunks written to the output stream
    put_log,           \* [engine -> Seq(chunk)] chunks put on output_queue, in order
    sink,              \* [engine -> Seq(message)] what verbose_callback received
    mt_calls,          \* [engine -> Seq(text)] texts _translate was called with
    mt_error,          \* [engine -> BOOLEAN]   the last _translate ended in its except
    tasks,             \* [engine -> tasks start() has created, by kind]
    stop_event         \* [engine -> BOOLEAN]   self.stop_event

segVars == <<triggered, buffer, silence_counter>>
capVars == <<triggered, buffer, silence_counter, cb_pc, frame_no, speech_no,
             lost, loop_calls>>
procVars == <<proc_pc, audio_data, text, translated_text, tts_idx>>
histVars == <<put_log, sink, mt_calls, mt_error>>
vars == <<is_running, is_playing_audio, shared_event, triggered, buffer,
          silence_counter, cb_pc, frame_no, speech_no, budget, lost,
          loop_calls, audio_queue, prod_pc, proc_pc, audio_data,
          text, translated_text, tts_idx, output_queue, play_pc, written,
          put_log, sink, mt_calls, mt_error, tasks, stop_event>>

(***************************************************************************)
(* Frames, utterances, chunks.                                             *)
(***************************************************************************)
\* indata.copy(): the frame, with the VAD's verdict on it
Frame(n, is_speech) == [id |-> n, speech |-> is_speech]

\* frames of the k-th utterance of an engine that heard one speech frame and
\* then silence until the segmenter flushed
UtteranceLen == SUCCESSIVE_SILENCE_LIMIT + 2

Utterance(k) ==
    [i \in 1..UtteranceLen |-> Frame((k - 1) * UtteranceLen + i, i = 1)]

\* a PCM chunk of the TTS stream for the utterance that starts at frame u
Chunk(u, i) == [utt |-> u, idx |-> i]

\* the None that _text_to_speech yields when the stream fails
NoneChunk == [utt |-> 0, idx |-> 0]

(***************************************************************************)
(* Capture: _audio_producer and its callback.                              *)
(*                                                                         *)
(* prod_pc: "new"    start() has not been called                           *)
(*          "open"   the task is created; InputStream is not opened yet    *)
(*          "stream" in with stream: while self.is_running: sleep          *)
(*          "failed" the coroutine ended in its except block               *)
(*          "done"   the loop ended on is_running = False                  *)
(* The callback runs on the audio driver's thread.  It reads shared_event, *)
(* is_playing_audio and is_running first (CallbackEnter) and classifies    *)
(* and buffers the frame afterwards (CallbackFrame); the playback          *)
(* coroutines of both engines may run in between, and so may stop(), which *)
(* is called on the GUI's thread.  The VU-meter update and the two status  *)
(* lines of the callback only feed the GUI and are left out.               *)
(***************************************************************************)
\* ResetSegmenter with triggered = False forgotten
ResetSegmenter_KeepsTriggered(e) ==
    /\ buffer' = [buffer EXCEPT ![e] = <<>>]
    /\ silence_counter' = [silence_counter EXCEPT ![e] = 0]
    /\ UNCHANGED triggered

\* triggered = False; buffer = []; silence_counter = 0
ResetSegmenter(e) ==
    /\ triggered' = [triggered EXCEPT ![e] = FALSE]
    /\ buffer' = [buffer EXCEPT ![e] = <<>>]
    /\ silence_counter' = [silence_counter EXCEPT ![e] = 0]

\* the stream is open and the driver has a frame to deliver
FrameArrives(e) ==
    /\ prod_pc[e] = "stream"
    /\ cb_pc[e] = "idle"
    /\ frame_no[e] < budget[e]

\* DiscardFrame with buffer = [] forgotten
DiscardFrame_KeepsBuffer(e) ==
    /\ triggered' = [triggered EXCEPT ![e] = FALSE]
    /\ silence_counter' = [silence_counter EXCEPT ![e] = 0]
    /\ frame_no' = [frame_no EXCEPT ![e] = @ + 1]
    /\ lost' = [lost EXCEPT ![e] =
                   IF buffer[e] # <<>> THEN buffer[e][Len(buffer[e])].id ELSE @]
    /\ UNCHANGED <<buffer, cb_pc, speech_no, loop_calls>>

\* what a callback that returns at the interlock leaves behind
DiscardFrame(e) ==
    /\ ResetSegmenter(e)
    /\ frame_no' = [frame_no EXCEPT ![e] = @ + 1]
    /\ lost' = [lost EXCEPT ![e] =
                   IF buffer[e] # <<>> THEN buffer[e][Len(buffer[e])].id ELSE @]
    /\ UNCHANGED <<cb_pc, speech_no, loop_calls>>

\* CallbackInterlocked with the return forgotten
CallbackInterlocked_NoReturn(e) ==
    /\ FrameArrives(e)
    /\ shared_event
    /\ ResetSegmenter(e)
    /\ frame_no' = [frame_no EXCEPT ![e] = @ + 1]
    /\ cb_pc' = [cb_pc EXCEPT ![e] = "body"]
    /\ UNCHANGED <<speech_no, lost, loop_calls>>
    /\ UNCHANGED <<is_running, is_playing_audio, shared_event, budget, tasks, stop_event, audio_queue,
                   prod_pc, procVars, output_queue, play_pc, written, histVars>>

\* GLOBAL INTERLOCK: if self.shared_event and self.shared_event.is_set()
CallbackInterlocked(e) ==
    /\ FrameArrives(e)
    /\ shared_event
    /\ DiscardFrame(e)
    /\ UNCHANGED <<is_running, is_playing_audio, shared_event, budget, tasks, stop_event, audio_queue,
                   prod_pc, procVars, output_queue, play_pc, written, histVars>>

\* CallbackDeafened without the return: the callback goes on to the frame
CallbackDeafened_Listens(e) ==
    /\ FrameArrives(e)
    /\ ~shared_event
    /\ is_playing_audio[e]
    /\ frame_no' = [frame_no EXCEPT ![e] = @ + 1]
    /\ cb_pc' = [cb_pc EXCEPT ![e] = IF is_running[e] THEN "body" ELSE "skip"]
    /\ UNCHANGED <<segVars, speech_no, lost, loop_calls>>
    /\ UNCHANGED <<is_running, is_playing_audio, shared_event, budget, tasks, stop_event, audio_queue,
                   prod_pc, procVars, output_queue, play_pc, written, histVars>>

\* SELF-DEAFENING: if self.is_playing_audio
CallbackDeafened(e) ==
    /\ FrameArrives(e)
    /\ ~shared_event
    /\ is_playing_audio[e]
    /\ DiscardFrame(e)
    /\ UNCHANGED <<is_running, is_playing_audio, shared_event, budget, tasks, stop_event, audio_queue,
                   prod_pc, procVars, output_queue, play_pc, written, histVars>>

\* neither check returned: if self.is_running: the callback goes on to the
\* frame, or it skips it
CallbackEnter(e) ==
    /\ FrameArrives(e)
    /\ ~shared_event
    /\ ~is_playing_audio[e]
    /\ frame_no' = [frame_no EXCEPT ![e] = @ + 1]
    /\ cb_pc' = [cb_pc EXCEPT ![e] = IF is_running[e] THEN "body" ELSE "skip"]
    /\ UNCHANGED <<segVars, speech_no, lost, loop_calls>>
    /\ UNCHANGED <<is_running, is_playing_audio, shared_event, budget, tasks, stop_event, audio_queue,
                   prod_pc, procVars, output_queue, play_pc, written, histVars>>

\* SilenceLimitExceeded with a limit two frames short
SilenceLimitExceeded_Early(c) == c + 2 > SUCCESSIVE_SILENCE_LIMIT

\* SilenceLimitExceeded with >= for >
SilenceLimitExceeded_AtLimit(c) == c >= SUCCESSIVE_SILENCE_LIMIT

\* if silence_counter > SUCCESSIVE_SILENCE_LIMIT
SilenceLimitExceeded(c) == c > SUCCESSIVE_SILENCE_LIMIT

\* vad.is_speech(...), an exception of the VAD counting as silence
IsSpeech(vad) == vad = "speech"

\* CallbackFrame with a speech frame that starts the buffer afresh when it
\* arrives while trailing silence is being counted
CallbackFrame_SpeechRestarts(e, vad) ==
    /\ cb_pc[e] \in {"body", "skip"}
    /\ cb_pc' = [cb_pc EXCEPT ![e] = "idle"]
    /\ IF cb_pc[e] = "skip"
       THEN /\ vad = "silence"
            /\ UNCHANGED <<segVars, speech_no, loop_calls>>
       ELSE IF IsSpeech(vad)
       THEN /\ speech_no[e] < MaxSpeech
            /\ speech_no' = [speech_no EXCEPT ![e] = @ + 1]
            /\ triggered' = [triggered EXCEPT ![e] = TRUE]
            /\ silence_counter' = [silence_counter EXCEPT ![e] = 0]
            /\ buffer' = [buffer EXCEPT ![e] =
                              IF silence_counter[e] > 0
                              THEN <<Frame(frame_no[e], TRUE)>>
                              ELSE Append(@, Frame(frame_no[e], TRUE))]
            /\ UNCHANGED loop_calls
       ELSE IF triggered[e]
       THEN LET c == silence_counter[e] + 1
                b == Append(buffer[e], Frame(frame_no[e], FALSE))
            IN  IF SilenceLimitExceeded(c)
                THEN /\ ResetSegmenter(e)
                     /\ loop_calls' = [loop_calls EXCEPT ![e] =
                                          IF b # <<>> THEN Append(@, b) ELSE @]
                     /\ UNCHANGED speech_no
                ELSE /\ silence_counter' = [silence_counter EXCEPT ![e] = c]
                     /\ buffer' = [buffer EXCEPT ![e] = b]
                     /\ UNCHANGED <<triggered, speech_no, loop_calls>>
       ELSE UNCHANGED <<segVars, speech_no, loop_calls>>
    /\ UNCHANGED <<frame_no, lost>>
    /\ UNCHANGED <<is_running, is_playing_audio, shared_event, budget, tasks, stop_event,
                   audio_queue, prod_pc, procVars, output_queue, play_pc, written, histVars>>

\* the body of the callback under if self.is_running, which the callback
\* tested when it entered: stop() may have been called since
CallbackFrame(e, vad) ==
    /\ cb_pc[e] \in {"body", "skip"}
    /\ cb_pc' = [cb_pc EXCEPT ![e] = "idle"]
    /\ IF cb_pc[e] = "skip"
       THEN /\ vad = "silence"
            /\ UNCHANGED <<segVars, speech_no, loop_calls>>
       ELSE IF IsSpeech(vad)
       THEN /\ speech_no[e] < MaxSpeech
            /\ speech_no' = [speech_no EXCEPT ![e] = @ + 1]
            /\ triggered' = [triggered EXCEPT ![e] = TRUE]
            /\ silence_counter' = [silence_counter EXCEPT ![e] = 0]
            /\ buffer' = [buffer EXCEPT ![e] = Append(@, Frame(frame_no[e], TRUE))]
            /\ UNCHANGED loop_calls
       ELSE IF triggered[e]
       THEN LET c == silence_counter[e] + 1
                b == Append(buffer[e], Frame(frame_no[e], FALSE))
            IN  IF SilenceLimitExceeded(c)
                THEN /\ ResetSegmenter(e)
                     /\ loop_calls' = [loop_calls EXCEPT ![e] =
                                          IF b # <<>> THEN Append(@, b) ELSE @]
                     /\ UNCHANGED speech_no
                ELSE /\ silence_counter' = [silence_counter EXCEPT ![e] = c]
                     /\ buffer' = [buffer EXCEPT ![e] = b]
                     /\ UNCHANGED <<triggered, speech_no, loop_calls>>
       ELSE UNCHANGED <<segVars, speech_no, loop_calls>>
    /\ UNCHANGED <<frame_no, lost>>
    /\ UNCHANGED <<is_running, is_playing_audio, shared_event, budget, tasks, stop_event, audio_queue,
                   prod_pc, procVars, output_queue, play_pc, written, histVars>>

\* stream = sd.InputStream(...); with stream:
ProducerOpen(e) ==
    /\ prod_pc[e] = "open"
    /\ prod_pc' = [prod_pc EXCEPT ![e] = "stream"]
    /\ UNCHANGED <<is_running, is_playing_audio, shared_event, capVars, budget, tasks,
                   stop_event, audio_queue, procVars, output_queue, play_pc, written,
                   histVars>>

\* sd.InputStream(...) raises: except Exception: logger.error(...);
\* self.stop_event.set()
ProducerOpenFails(e) ==
    /\ prod_pc[e] = "open"
    /\ prod_pc' = [prod_pc EXCEPT ![e] = "failed"]
    /\ stop_event' = [stop_event EXCEPT ![e] = TRUE]
    /\ UNCHANGED <<is_running, is_playing_audio, shared_event, capVars, budget, tasks,
                   audio_queue, procVars, output_queue, play_pc, written, histVars>>

\* with stream: while self.is_running: await asyncio.sleep(0.1)
ProducerExit(e) ==
    /\ prod_pc[e] = "stream"
    /\ cb_pc[e] = "idle"
    /\ ~is_running[e]
    /\ prod_pc' = [prod_pc EXCEPT ![e] = "done"]
    /\ UNCHANGED <<is_running, is_playing_audio, shared_event, capVars, budget, tasks, stop_event,
                   audio_queue, procVars, output_queue, play_pc, written, histVars>>

\* async def start(self): self.is_running = True and the three create_task
\* calls.  The pcs follow the tasks of the first call: the producer is about to
\* open its stream, the processor is at the top of its loop (as after a sleep),
\* the playback worker is about to open its stream.  The tasks of a further
\* call are counted in tasks only.
Start(e) ==
    /\ tasks[e].producer_task < MaxStarts
    /\ is_running' = [is_running EXCEPT ![e] = TRUE]
    /\ tasks' = [tasks EXCEPT ![e] = [k \in DOMAIN @ |-> @[k] + 1]]
    /\ IF prod_pc[e] = "new"
       THEN /\ prod_pc' = [prod_pc EXCEPT ![e] = "open"]
            /\ proc_pc' = [proc_pc EXCEPT ![e] = "wait"]
            /\ play_pc' = [play_pc EXCEPT ![e] = "open"]
       ELSE UNCHANGED <<prod_pc, proc_pc, play_pc>>
    /\ UNCHANGED <<is_playing_audio, shared_event, capVars, budget, stop_event,
                   audio_queue, audio_data, text, translated_text, tts_idx,
                   output_queue, written, histVars>>

\* def stop(self): self.is_running = False
Stop(e) ==
    /\ is_running[e]
    /\ is_running' = [is_running EXCEPT ![e] = FALSE]
    /\ UNCHANGED <<is_playing_audio, shared_event, capVars, budget, tasks, stop_event, audio_queue,
                   prod_pc, procVars, output_queue, play_pc, written, histVars>>

(***************************************************************************)
(* Playback: _playback_consumer.                                           *)
(*                                                                         *)
(* play_pc: "new"   start() has not been called                            *)
(*          "open"  the task is created; RawOutputStream is not opened     *)
(*                  yet.  The producer task, created first, runs to its    *)
(*                  first await (it opens its stream) before this one      *)
(*          "wait"  in await asyncio.sleep(0.05), the queue was empty      *)
(*          "loop"  at while self.is_running                               *)
(*          "acq"   is_playing_audio is set, shared_event.set() is next    *)
(*          "drain" in while not self.output_queue.empty()                 *)
(*          "sleep" in await asyncio.sleep(0.1)                            *)
(*          "fin"   in finally: is_playing_audio is cleared,               *)
(*                  shared_event.clear() is next                           *)
(*          "raise" stream.write raised: the finally block is next         *)
(*          "rfin"  in finally on the way out of the exception             *)
(*          "exc"   in except Exception: is_playing_audio is cleared,      *)
(*                  shared_event.clear() is next                           *)
(*          "done"  the loop ended on is_running = False                   *)
(*          "dead"  the coroutine ended in its except block                *)
(* The coroutine is suspended in the two sleeps only: opening the stream   *)
(* blocks the loop, and the drain loop has no suspension point (the queue  *)
(* is not empty when get() is awaited, and stream.write is a blocking      *)
(* call).                                                                  *)
(***************************************************************************)
PlayYielded(e) == play_pc[e] \in {"wait", "sleep", "done", "dead"}

PlayEnded(e) == play_pc[e] \in {"done", "dead"}

\* stream = sd.RawOutputStream(...); with stream:
PlayOpen(e) ==
    /\ play_pc[e] = "open"
    /\ prod_pc[e] # "open"
    /\ play_pc' = [play_pc EXCEPT ![e] = "loop"]
    /\ UNCHANGED <<is_running, is_playing_audio, shared_event, capVars, budget, tasks, stop_event,
                   audio_queue, prod_pc, procVars, output_queue, written, histVars>>

\* RawOutputStream(...) raises: except Exception: self.is_playing_audio = False
PlayOpenFails(e) ==
    /\ play_pc[e] = "open"
    /\ prod_pc[e] # "open"
    /\ play_pc' = [play_pc EXCEPT ![e] = "exc"]
    /\ is_playing_audio' = [is_playing_audio EXCEPT ![e] = FALSE]
    /\ UNCHANGED <<is_running, shared_event, capVars, budget, tasks, stop_event, audio_queue, prod_pc,
                   procVars, output_queue, written, histVars>>

\* await asyncio.sleep(0.05) returns; continue.  A wake-up that finds the engine
\* running and the queue still empty sleeps again and changes nothing.
PlayWake(e) ==
    /\ play_pc[e] = "wait"
    /\ ~is_running[e] \/ output_queue[e] # <<>>
    /\ play_pc' = [play_pc EXCEPT ![e] = "loop"]
    /\ UNCHANGED <<is_running, is_playing_audio, shared_event, capVars, budget, tasks, stop_event,
                   audio_queue, prod_pc, procVars, output_queue, written, histVars>>

\* if self.output_queue.empty(): await asyncio.sleep(0.05)
PlayIdle(e) ==
    /\ play_pc[e] = "loop"
    /\ is_running[e]
    /\ output_queue[e] = <<>>
    /\ play_pc' = [play_pc EXCEPT ![e] = "wait"]
    /\ UNCHANGED <<is_running, is_playing_audio, shared_event, capVars, budget, tasks, stop_event,
                   audio_queue, prod_pc, procVars, output_queue, written, histVars>>

\* while self.is_running: left with is_running False
PlayExit(e) ==
    /\ play_pc[e] = "loop"
    /\ ~is_running[e]
    /\ play_pc' = [play_pc EXCEPT ![e] = "done"]
    /\ UNCHANGED <<is_running, is_playing_audio, shared_event, capVars, budget, tasks, stop_event,
                   audio_queue, prod_pc, procVars, output_queue, written, histVars>>

\* self.is_playing_audio = True
PlayMute(e) ==
    /\ play_pc[e] = "loop"
    /\ is_running[e]
    /\ output_queue[e] # <<>>
    /\ is_playing_audio' = [is_playing_audio EXCEPT ![e] = TRUE]
    /\ play_pc' = [play_pc EXCEPT ![e] = "acq"]
    /\ UNCHANGED <<is_running, shared_event, capVars, budget, tasks, stop_event, audio_queue, prod_pc,
                   procVars, output_queue, written, histVars>>

\* self.shared_event.set()
PlaySetEvent(e) ==
    /\ play_pc[e] = "acq"
    /\ shared_event' = TRUE
    /\ play_pc' = [play_pc EXCEPT ![e] = "drain"]
    /\ UNCHANGED <<is_running, is_playing_audio, capVars, budget, tasks, stop_event, audio_queue, prod_pc,
                   procVars, output_queue, written, histVars>>

\* a queue that hands out its newest item
NextChunk_Newest(q) == q[Len(q)]

\* chunk_bytes = await self.output_queue.get()
NextChunk(q) == Head(q)

RestOfQueue(q) == Tail(q)

\* if chunk_bytes: stream.write(chunk_np)
PlayWrite(e) ==
    /\ play_pc[e] = "drain"
    /\ output_queue[e] # <<>>
    /\ output_queue' = [output_queue EXCEPT ![e] = RestOfQueue(@)]
    /\ written' = [written EXCEPT ![e] =
                      IF NextChunk(output_queue[e]) # NoneChunk
                      THEN Append(@, NextChunk(output_queue[e])) ELSE @]
    /\ UNCHANGED <<is_running, is_playing_audio, shared_event, capVars, budget, tasks, stop_event,
                   audio_queue, prod_pc, procVars, play_pc, histVars>>

\* stream.write(chunk_np) raises
PlayWriteFails(e) ==
    /\ play_pc[e] = "drain"
    /\ output_queue[e] # <<>>
    /\ NextChunk(output_queue[e]) # NoneChunk
    /\ output_queue' = [output_queue EXCEPT ![e] = RestOfQueue(@)]
    /\ play_pc' = [play_pc EXCEPT ![e] = "raise"]
    /\ UNCHANGED <<is_running, is_playing_audio, shared_event, capVars, budget, tasks, stop_event,
                   audio_queue, prod_pc, procVars, written, histVars>>

\* the queue is empty: await asyncio.sleep(0.1)
PlayDrained(e) ==
    /\ play_pc[e] = "drain"
    /\ output_queue[e] = <<>>
    /\ play_pc' = [play_pc EXCEPT ![e] = "sleep"]
    /\ UNCHANGED <<is_running, is_playing_audio, shared_event, capVars, budget, tasks, stop_event,
                   audio_queue, prod_pc, procVars, output_queue, written, histVars>>

\* a finally block that leaves is_playing_audio as it is
PlayUnmute_KeepsFlag(e) ==
    /\ play_pc[e] \in {"sleep", "raise"}
    /\ play_pc' = [play_pc EXCEPT ![e] = IF @ = "sleep" THEN "fin" ELSE "rfin"]
    /\ UNCHANGED <<is_running, is_playing_audio, shared_event, capVars, budget, tasks, stop_event,
                   audio_queue, prod_pc, procVars, output_queue, written, histVars>>

\* finally: self.is_playing_audio = False
PlayUnmute(e) ==
    /\ play_pc[e] \in {"sleep", "raise"}
    /\ is_playing_audio' = [is_playing_audio EXCEPT ![e] = FALSE]
    /\ play_pc' = [play_pc EXCEPT ![e] = IF @ = "sleep" THEN "fin" ELSE "rfin"]
    /\ UNCHANGED <<is_running, shared_event, capVars, budget, tasks, stop_event, audio_queue, prod_pc,
                   procVars, output_queue, written, histVars>>

\* a finally block that leaves the event as it is
PlayClearEvent_Leaks(e) ==
    /\ play_pc[e] = "fin"
    /\ play_pc' = [play_pc EXCEPT ![e] = "loop"]
    /\ UNCHANGED <<is_running, is_playing_audio, shared_event, capVars, budget, tasks, stop_event,
                   audio_queue, prod_pc, procVars, output_queue, written, histVars>>

\* finally: self.shared_event.clear(), then back to while self.is_running
PlayClearEvent(e) ==
    /\ play_pc[e] = "fin"
    /\ shared_event' = FALSE
    /\ play_pc' = [play_pc EXCEPT ![e] = "loop"]
    /\ UNCHANGED <<is_running, is_playing_audio, capVars, budget, tasks, stop_event, audio_queue, prod_pc,
                   procVars, output_queue, written, histVars>>

\* finally: self.shared_event.clear(), then except Exception:
\* self.is_playing_audio = False
PlayClearEventRaising(e) ==
    /\ play_pc[e] = "rfin"
    /\ shared_event' = FALSE
    /\ is_playing_audio' = [is_playing_audio EXCEPT ![e] = FALSE]
    /\ play_pc' = [play_pc EXCEPT ![e] = "exc"]
    /\ UNCHANGED <<is_running, capVars, budget, tasks, stop_event, audio_queue, prod_pc, procVars,
                   output_queue, written, histVars>>

\* except Exception: self.shared_event.clear()
PlayExcept(e) ==
    /\ play_pc[e] = "exc"
    /\ shared_event' = FALSE
    /\ play_pc' = [play_pc EXCEPT ![e] = "dead"]
    /\ UNCHANGED <<is_running, is_playing_audio, capVars, budget, tasks, stop_event, audio_queue, prod_pc,
                   procVars, output_queue, written, histVars>>

Playback(e) ==
    \/ PlayOpen(e)
    \/ PlayOpenFails(e)
    \/ PlayWake(e)
    \/ PlayIdle(e)
    \/ PlayExit(e)
    \/ PlayMute(e)
    \/ PlaySetEvent(e)
    \/ PlayWrite(e)
    \/ PlayWriteFails(e)
    \/ PlayDrained(e)
    \/ PlayUnmute(e)
    \/ PlayClearEvent(e)
    \/ PlayClearEventRaising(e)
    \/ PlayExcept(e)

(***************************************************************************)
(* Text.  A str is a sequence of one-character strings; a value that may   *)
(* be None is a record [none, s].                                          *)
(***************************************************************************)
NoneText == [none |-> TRUE, s |-> <<>>]

Str(s) == [none |-> FALSE, s |-> s]

\* Python's truth value of a str or None
Truthy(t) == ~t.none /\ t.s # <<>>

Whitespace == {" "}

Uppers == <<"A", "D", "E", "H", "I", "K", "N", "O", "T", "U", "Y">>

Lowers == <<"a", "d", "e", "h", "i", "k", "n", "o", "t", "u", "y">>

LowerChar(c) ==
    IF \E i \in DOMAIN Uppers : Uppers[i] = c
    THEN Lowers[CHOOSE i \in DOMAIN Uppers : Uppers[i] = c]
    ELSE c

\* str.lower()
Lower(s) == [i \in DOMAIN s |-> LowerChar(s[i])]

RECURSIVE LStrip(_)
LStrip(s) ==
    IF s # <<>> /\ Head(s) \in Whitespace THEN LStrip(Tail(s)) ELSE s

RECURSIVE RStrip(_)
RStrip(s) ==
    IF s # <<>> /\ s[Len(s)] \in Whitespace
    THEN RStrip(SubSeq(s, 1, Len(s) - 1)) ELSE s

\* str.strip()
Strip(s) == RStrip(LStrip(s))

\* str.startswith(p)
StartsWith(s, p) == Len(s) >= Len(p) /\ SubSeq(s, 1, Len(p)) = p

ignored_phrases ==
    { <<".">>, <<".", ".", ".">>, <<"?">>, <<"!">>,
      <<"y", "o", "u">>,
      <<"t", "h", "a", "n", "k", " ", "y", "o", "u">>,
      <<"s", "u", "b", "t", "i", "t", "l", "e", "s">>,
      <<"w", "a", "t", "c", "h", "i", "n", "g">>,
      <<"v", "i", "d", "e", "o">>,
      <<"s", "u", "b", "s", "c", "r", "i", "b", "e">>,
      <<"n", "o", "t", "i", "f", "i", "c", "a", "t", "i", "o", "n">>,
      <<"c", "o", "p", "y", "r", "i", "g", "h", "t">> }

\* clean_text = text.strip().lower() if text else ""
CleanText(t) == IF Truthy(t) THEN Lower(Strip(t.s)) ELSE <<>>

\* the filter without the lower-casing
Filtered_CaseSensitive(t) ==
    \/ ~Truthy(t)
    \/ Len(Strip(t.s)) < 2
    \/ Strip(t.s) \in ignored_phrases
    \/ StartsWith(Strip(t.s), <<"(">>)

\* if (not text or len(clean_text) < 2 or clean_text in ignored_phrases
\*     or clean_text.startswith("(")): continue
Filtered(t) ==
    \/ ~Truthy(t)
    \/ Len(CleanText(t)) < 2
    \/ CleanText(t) \in ignored_phrases
    \/ StartsWith(CleanText(t), <<"(">>)

(***************************************************************************)
(* The providers' answers the model draws from.                            *)
(***************************************************************************)
\* transcript.text as the recognizer returns it
RawTranscripts ==
    { <<>>, <<" ">>, <<"a">>, <<" ", "a", " ">>, <<".">>, <<".", ".", ".">>,
      <<"?">>, <<"!">>,
      <<"y", "o", "u">>, <<" ", "Y", "o", "u", " ">>,
      <<"T", "H", "A", "N", "K", " ", "Y", "O", "U">>,
      <<"t", "h", "a", "n", "k", " ", "y", "o", "u">>,
      <<"s", "u", "b", "t", "i", "t", "l", "e", "s">>,
      <<"W", "a", "t", "c", "h", "i", "n", "g">>,
      <<"v", "i", "d", "e", "o">>,
      <<"s", "u", "b", "s", "c", "r", "i", "b", "e">>,
      <<"n", "o", "t", "i", "f", "i", "c", "a", "t", "i", "o", "n">>,
      <<"c", "o", "p", "y", "r", "i", "g", "h", "t">>,
      <<"(", "a", "p", "p", "l", "a", "u", "s", "e", ")">>,
      <<" ", "(", "h", "i">>,
      <<"Y", "o", "u", " ", "t", "o", "o">> }

\* the recognizer answers with a text, or the call raises
SttOutcomes ==
    {[raises |-> TRUE, raw |-> <<>>]} \cup
    {[raises |-> FALSE, raw |-> r] : r \in RawTranscripts}

\* _transcribe: return transcript.text.strip(); except Exception: return None
Transcribe(stt) == IF stt.raises THEN NoneText ELSE Str(Strip(stt.raw))

\* the translator's answer: a JSON object with the key, a JSON object without
\* it, or no JSON object at all (a parse error, or the call raises)
MtOutcomes ==
    { [kind |-> "json", translation |-> <<>>],
      [kind |-> "json", translation |-> <<"t", "r">>],
      [kind |-> "nokey", translation |-> <<>>],
      [kind |-> "error", translation |-> <<>>] }

\* Translate with an except block that returns ""
Translate_DropsOnError(t, mt) ==
    IF mt.kind = "json" THEN mt.translation ELSE <<>>

\* _translate: return data.get("translation", ""); except Exception: return text
Translate(t, mt) ==
    IF mt.kind = "json" THEN mt.translation
    ELSE IF mt.kind = "nokey" THEN <<>>
    ELSE t

\* self.verbose_callback(f"Original: {text} -> Translated: {translated_text}")
PairMessage(t, tr) ==
    [fmt |-> "Original: {text} -> Translated: {translated_text}",
     text |-> t, translated_text |-> tr]

(***************************************************************************)
(* The event loop's callbacks and the processor: _processing_consumer.     *)
(*                                                                         *)
(* proc_pc: "wait"  in await asyncio.sleep(0.05), the queue was empty      *)
(*          "stt"   in await self._transcribe(audio_data)                  *)
(*          "mt"    in await self._translate(text)                         *)
(*          "tts"   in async for chunk in self._text_to_speech(...)        *)
(*          "done"  the loop ended on is_running = False                   *)
(* Every processor step runs from one suspension point to the next, while  *)
(* the playback coroutine of the same loop is suspended.  The three        *)
(* adapters catch every Exception themselves, so no provider error reaches *)
(* the except blocks of the processor.                                     *)
(***************************************************************************)
\* loop.call_soon_threadsafe(self.audio_queue.put_nowait, full_audio), run by the loop
LoopCall(e) ==
    /\ loop_calls[e] # <<>>
    /\ PlayYielded(e)
    /\ audio_queue' = [audio_queue EXCEPT ![e] = Append(@, Head(loop_calls[e]))]
    /\ loop_calls' = [loop_calls EXCEPT ![e] = Tail(@)]
    /\ UNCHANGED <<is_running, is_playing_audio, shared_event, segVars, cb_pc,
                   frame_no, speech_no, budget, tasks, stop_event, lost, prod_pc,
                   procVars, output_queue, play_pc, written, histVars>>

\* while self.is_running: if self.audio_queue.empty(): sleep; continue
\* audio_data = await self.audio_queue.get(); text = await self._transcribe(...)
ProcLoopTop(e) ==
    /\ tts_idx' = [tts_idx EXCEPT ![e] = 0]
    /\ IF ~is_running[e]
       THEN /\ proc_pc' = [proc_pc EXCEPT ![e] = "done"]
            /\ UNCHANGED <<audio_data, audio_queue>>
       ELSE IF audio_queue[e] = <<>>
       THEN /\ proc_pc' = [proc_pc EXCEPT ![e] = "wait"]
            /\ UNCHANGED <<audio_data, audio_queue>>
       ELSE /\ proc_pc' = [proc_pc EXCEPT ![e] = "stt"]
            /\ audio_data' = [audio_data EXCEPT ![e] = Head(audio_queue[e])]
            /\ audio_queue' = [audio_queue EXCEPT ![e] = Tail(@)]

\* await asyncio.sleep(0.05) returns; continue
ProcWake(e) ==
    /\ proc_pc[e] = "wait"
    /\ PlayYielded(e)
    /\ ProcLoopTop(e)
    /\ UNCHANGED <<text, translated_text>>
    /\ UNCHANGED <<is_running, is_playing_audio, shared_event, capVars, budget, tasks, stop_event,
                   prod_pc, output_queue, play_pc, written, histVars>>

\* text = await self._transcribe(audio_data); the filter; the call of _translate
ProcTranscribed(e, stt) ==
    /\ proc_pc[e] = "stt"
    /\ PlayYielded(e)
    /\ text' = [text EXCEPT ![e] = Transcribe(stt)]
    /\ IF Filtered(Transcribe(stt))
       THEN /\ ProcLoopTop(e)
            /\ UNCHANGED mt_calls
       ELSE /\ proc_pc' = [proc_pc EXCEPT ![e] = "mt"]
            /\ mt_calls' = [mt_calls EXCEPT ![e] = Append(@, Transcribe(stt).s)]
            /\ UNCHANGED <<audio_data, tts_idx, audio_queue>>
    /\ UNCHANGED translated_text
    /\ UNCHANGED <<is_running, is_playing_audio, shared_event, capVars, budget, tasks, stop_event,
                   prod_pc, output_queue, play_pc, written, put_log, sink, mt_error>>

\* translated_text = await self._translate(text); if not translated_text: continue
\* self.verbose_callback(...); the call of _text_to_speech
ProcTranslated(e, mt) ==
    /\ proc_pc[e] = "mt"
    /\ PlayYielded(e)
    /\ translated_text' = [translated_text EXCEPT ![e] = Translate(text[e].s, mt)]
    /\ mt_error' = [mt_error EXCEPT ![e] = mt.kind = "error"]
    /\ IF Translate(text[e].s, mt) = <<>>
       THEN /\ ProcLoopTop(e)
            /\ UNCHANGED sink
       ELSE /\ sink' = [sink EXCEPT ![e] =
                           Append(@, PairMessage(text[e].s, Translate(text[e].s, mt)))]
            /\ proc_pc' = [proc_pc EXCEPT ![e] = "tts"]
            /\ UNCHANGED <<audio_data, tts_idx, audio_queue>>
    /\ UNCHANGED text
    /\ UNCHANGED <<is_running, is_playing_audio, shared_event, capVars, budget, tasks, stop_event,
                   prod_pc, output_queue, play_pc, written, put_log, mt_calls>>

\* await self.output_queue.put(chunk)
PutChunk(e, c) ==
    /\ output_queue' = [output_queue EXCEPT ![e] = Append(@, c)]
    /\ put_log' = [put_log EXCEPT ![e] = Append(@, c)]

\* async for chunk in self._text_to_speech(...): the stream yields a chunk
ProcTtsChunk(e) ==
    /\ proc_pc[e] = "tts"
    /\ PlayYielded(e)
    /\ tts_idx[e] < MaxChunks
    /\ tts_idx' = [tts_idx EXCEPT ![e] = @ + 1]
    /\ PutChunk(e, Chunk(audio_data[e][1].id, tts_idx[e] + 1))
    /\ UNCHANGED <<proc_pc, audio_data, text, translated_text, audio_queue>>
    /\ UNCHANGED <<is_running, is_playing_audio, shared_event, capVars, budget, tasks, stop_event,
                   prod_pc, play_pc, written, sink, mt_calls, mt_error>>

\* the stream is exhausted
ProcTtsEnd(e) ==
    /\ proc_pc[e] = "tts"
    /\ PlayYielded(e)
    /\ ProcLoopTop(e)
    /\ UNCHANGED <<text, translated_text>>
    /\ UNCHANGED <<is_running, is_playing_audio, shared_event, capVars, budget, tasks, stop_event,
                   prod_pc, output_queue, play_pc, written, histVars>>

\* ProcTtsFails that requests the synthesis of the same text again
ProcTtsFails_Retries(e) ==
    /\ proc_pc[e] = "tts"
    /\ PlayYielded(e)
    /\ PutChunk(e, NoneChunk)
    /\ tts_idx' = [tts_idx EXCEPT ![e] = 0]
    /\ UNCHANGED <<proc_pc, audio_data, audio_queue, text, translated_text>>
    /\ UNCHANGED <<is_running, is_playing_audio, shared_event, capVars, budget, tasks, stop_event,
                   prod_pc, play_pc, written, sink, mt_calls, mt_error>>

\* _text_to_speech: except Exception: yield None
ProcTtsFails(e) ==
    /\ proc_pc[e] = "tts"
    /\ PlayYielded(e)
    /\ PutChunk(e, NoneChunk)
    /\ ProcLoopTop(e)
    /\ UNCHANGED <<text, translated_text>>
    /\ UNCHANGED <<is_running, is_playing_audio, shared_event, capVars, budget, tasks, stop_event,
                   prod_pc, play_pc, written, sink, mt_calls, mt_error>>

Processor(e) ==
    \/ ProcWake(e)
    \/ \E stt \in SttOutcomes : ProcTranscribed(e, stt)
    \/ \E mt \in MtOutcomes : ProcTranslated(e, mt)
    \/ ProcTtsChunk(e)
    \/ ProcTtsEnd(e)
    \/ ProcTtsFails(e)

(***************************************************************************)
(* Scenarios.  Every initial state is a state of two started engines.      *)
(***************************************************************************)
\* frames SENDER's device delivers in the duplex scenario
MaxDuplexFrames == 2

\* an engine that has emitted k utterances, each of one speech frame and the
\* closing silence, and has not looked at them yet
Emitted(k) == [i \in 1..k |-> Utterance(i)]

\* what one call of start() has created: producer_task, processor_task, player_task
OneOfEach == [producer_task |-> 1, processor_task |-> 1, player_task |-> 1]

\* start(): is_running = True and the three tasks; the processor found its queue
\* empty; the input stream is open
Started ==
    /\ is_running = [e \in Engines |-> TRUE]
    /\ is_playing_audio = [e \in Engines |-> FALSE]
    /\ shared_event = FALSE
    /\ triggered = [e \in Engines |-> FALSE]
    /\ buffer = [e \in Engines |-> <<>>]
    /\ silence_counter = [e \in Engines |-> 0]
    /\ cb_pc = [e \in Engines |-> "idle"]
    /\ speech_no = [e \in Engines |-> 0]
    /\ lost = [e \in Engines |-> 0]
    /\ audio_queue = [e \in Engines |-> <<>>]
    /\ prod_pc = [e \in Engines |-> "stream"]
    /\ written = [e \in Engines |-> <<>>]
    /\ tasks = [e \in Engines |-> OneOfEach]
    /\ stop_event = [e \in Engines |-> FALSE]

\* a transcript that passes the filter
SampleText == <<"Y", "o", "u", " ", "t", "o", "o">>

\* the processor of every engine of P is at pc in the pipeline of its first
\* utterance, with n chunks of it on the playback queue; the others are idle
InPipeline(P, pc, n) ==
    /\ frame_no = [e \in Engines |-> IF e \in P THEN UtteranceLen ELSE 0]
    /\ loop_calls = [e \in Engines |-> <<>>]
    /\ proc_pc = [e \in Engines |-> IF e \in P THEN pc ELSE "wait"]
    /\ audio_data = [e \in Engines |-> IF e \in P THEN Utterance(1) ELSE <<>>]
    /\ text = [e \in Engines |-> IF e \in P THEN Str(SampleText) ELSE NoneText]
    /\ translated_text = [e \in Engines |-> IF e \in P THEN <<"t", "r">> ELSE <<>>]
    /\ tts_idx = [e \in Engines |-> IF e \in P /\ pc = "tts" THEN n ELSE 0]
    /\ output_queue = [e \in Engines |->
                          IF e \in P THEN [i \in 1..n |-> Chunk(1, i)] ELSE <<>>]
    /\ put_log = output_queue
    /\ sink = [e \in Engines |->
                  IF e \in P THEN <<PairMessage(SampleText, <<"t", "r">>)>> ELSE <<>>]
    /\ mt_calls = [e \in Engines |-> IF e \in P THEN <<SampleText>> ELSE <<>>]
    /\ mt_error = [e \in Engines |-> FALSE]

\* Segmentation: SENDER captures MaxFrames more frames while the first chunk of
\* the translation of its first utterance waits to be played; RECEIVER is idle.
InitSeg ==
    /\ Started
    /\ InPipeline({"SENDER"}, "wait", 1)
    /\ play_pc = [e \in Engines |-> "wait"]
    /\ budget = [e \in Engines |->
                    IF e = "SENDER" THEN frame_no[e] + MaxFrames ELSE frame_no[e]]

NextSeg ==
    \E e \in Engines :
        \/ CallbackInterlocked(e)
        \/ CallbackDeafened(e)
        \/ CallbackEnter(e)
        \/ \E vad \in {"speech", "silence", "error"} : CallbackFrame(e, vad)
        \/ LoopCall(e)
        \/ PlayWake(e)
        \/ PlayIdle(e)
        \/ PlayMute(e)
        \/ PlaySetEvent(e)
        \/ PlayWrite(e)
        \/ PlayDrained(e)
        \/ PlayUnmute(e)
        \/ PlayClearEvent(e)

SpecSeg == InitSeg /\ [][NextSeg]_vars

\* frames the device delivers in the closing scenario
MaxCloseFrames == 3

\* Closing: SENDER is in the middle of an utterance: it heard one speech frame
\* and then silence, and its silence counter is at most two frames from the
\* flush.  Nothing is queued or played, RECEIVER is idle, the device delivers
\* MaxCloseFrames more frames, and stop() may be called at any moment.
InitClose ==
    /\ \E c \in {SUCCESSIVE_SILENCE_LIMIT - 1, SUCCESSIVE_SILENCE_LIMIT} :
           /\ buffer = [e \in Engines |->
                            IF e = "SENDER" THEN [i \in 1..(c + 1) |-> Frame(i, i = 1)]
                            ELSE <<>>]
           /\ silence_counter = [e \in Engines |-> IF e = "SENDER" THEN c ELSE 0]
           /\ frame_no = [e \in Engines |-> IF e = "SENDER" THEN c + 1 ELSE 0]
    /\ triggered = [e \in Engines |-> e = "SENDER"]
    /\ speech_no = [e \in Engines |-> IF e = "SENDER" THEN 1 ELSE 0]
    /\ budget = [e \in Engines |->
                    IF e = "SENDER" THEN frame_no[e] + MaxCloseFrames ELSE frame_no[e]]
    /\ is_running = [e \in Engines |-> TRUE]
    /\ is_playing_audio = [e \in Engines |-> FALSE]
    /\ shared_event = FALSE
    /\ cb_pc = [e \in Engines |-> "idle"]
    /\ lost = [e \in Engines |-> 0]
    /\ loop_calls = [e \in Engines |-> <<>>]
    /\ audio_queue = [e \in Engines |-> <<>>]
    /\ prod_pc = [e \in Engines |-> "stream"]
    /\ proc_pc = [e \in Engines |-> "wait"]
    /\ audio_data = [e \in Engines |-> <<>>]
    /\ text = [e \in Engines |-> NoneText]
    /\ translated_text = [e \in Engines |-> <<>>]
    /\ tts_idx = [e \in Engines |-> 0]
    /\ output_queue = [e \in Engines |-> <<>>]
    /\ play_pc = [e \in Engines |-> "wait"]
    /\ written = [e \in Engines |-> <<>>]
    /\ put_log = [e \in Engines |-> <<>>]
    /\ sink = [e \in Engines |-> <<>>]
    /\ mt_calls = [e \in Engines |-> <<>>]
    /\ mt_error = [e \in Engines |-> FALSE]
    /\ tasks = [e \in Engines |-> OneOfEach]
    /\ stop_event = [e \in Engines |-> FALSE]

NextClose ==
    \E e \in Engines :
        \/ CallbackEnter(e)
        \/ \E vad \in {"speech", "silence", "error"} : CallbackFrame(e, vad)
        \/ LoopCall(e)
        \/ ProcWake(e)
        \/ PlayWake(e)
        \/ PlayExit(e)
        \/ ProducerExit(e)
        \/ Stop(e)

SpecClose == InitClose /\ [][NextClose]_vars

\* Pipeline: SENDER has emitted up to MaxUtterances utterances that its loop
\* has not been handed yet, its output stream is about to be opened, and the
\* device delivers no further frame.  RECEIVER is idle.
InitPipe ==
    /\ Started
    /\ \E k \in 0..MaxUtterances :
           /\ loop_calls = [e \in Engines |-> IF e = "SENDER" THEN Emitted(k) ELSE <<>>]
           /\ frame_no = [e \in Engines |-> IF e = "SENDER" THEN k * UtteranceLen ELSE 0]
    /\ budget = frame_no
    /\ proc_pc = [e \in Engines |-> "wait"]
    /\ audio_data = [e \in Engines |-> <<>>]
    /\ text = [e \in Engines |-> NoneText]
    /\ translated_text = [e \in Engines |-> <<>>]
    /\ tts_idx = [e \in Engines |-> 0]
    /\ output_queue = [e \in Engines |-> <<>>]
    /\ play_pc = [e \in Engines |-> IF e = "SENDER" THEN "open" ELSE "wait"]
    /\ put_log = [e \in Engines |-> <<>>]
    /\ sink = [e \in Engines |-> <<>>]
    /\ mt_calls = [e \in Engines |-> <<>>]
    /\ mt_error = [e \in Engines |-> FALSE]

\* the engine runs, its output device works and nobody calls stop()
NextPipe ==
    \/ LoopCall("SENDER")
    \/ Processor("SENDER")
    \/ PlayOpen("SENDER")
    \/ PlayWake("SENDER")
    \/ PlayIdle("SENDER")
    \/ PlayMute("SENDER")
    \/ PlaySetEvent("SENDER")
    \/ PlayWrite("SENDER")
    \/ PlayDrained("SENDER")
    \/ PlayUnmute("SENDER")
    \/ PlayClearEvent("SENDER")

SpecPipe == InitPipe /\ [][NextPipe]_vars

\* The processor alone: as InitPipe, with SENDER's playback worker in the sleep
\* of an empty queue
InitProc ==
    /\ Started
    /\ \E k \in 0..MaxUtterances :
           /\ loop_calls = [e \in Engines |-> IF e = "SENDER" THEN Emitted(k) ELSE <<>>]
           /\ frame_no = [e \in Engines |-> IF e = "SENDER" THEN k * UtteranceLen ELSE 0]
    /\ budget = frame_no
    /\ proc_pc = [e \in Engines |-> "wait"]
    /\ audio_data = [e \in Engines |-> <<>>]
    /\ text = [e \in Engines |-> NoneText]
    /\ translated_text = [e \in Engines |-> <<>>]
    /\ tts_idx = [e \in Engines |-> 0]
    /\ output_queue = [e \in Engines |-> <<>>]
    /\ play_pc = [e \in Engines |-> "wait"]
    /\ put_log = [e \in Engines |-> <<>>]
    /\ sink = [e \in Engines |-> <<>>]
    /\ mt_calls = [e \in Engines |-> <<>>]
    /\ mt_error = [e \in Engines |-> FALSE]

\* the steps of the processor and of the calls scheduled on its loop; the
\* playback worker stays in its sleep
NextProc ==
    \/ LoopCall("SENDER")
    \/ Processor("SENDER")

SpecProc == InitProc /\ [][NextProc]_vars

\* Shutdown: the same engine; the output device may fail and stop() may be
\* called at any moment
NextStop ==
    \/ LoopCall("SENDER")
    \/ Processor("SENDER")
    \/ Playback("SENDER")
    \/ ProducerExit("SENDER")
    \/ Stop("SENDER")

SpecStop == InitPipe /\ [][NextStop]_vars

\* Duplex: both engines play.  An engine either is about to open its output
\* stream, or has the chunks of its first translation waiting to be played;
\* RECEIVER's device delivers MaxDuplexFrames frames; stop() may be called at
\* any moment.
InitDuplex ==
    /\ Started
    /\ \E P \in SUBSET Engines : \E n \in 1..MaxChunks :
           /\ InPipeline(P, "wait", n)
           /\ play_pc = [e \in Engines |-> IF e \in P THEN "wait" ELSE "open"]
    /\ budget = [e \in Engines |->
                    IF e = "RECEIVER" THEN frame_no[e] + MaxDuplexFrames ELSE frame_no[e]]

NextDuplex ==
    \E e \in Engines :
        \/ CallbackInterlocked(e)
        \/ CallbackDeafened(e)
        \/ CallbackEnter(e)
        \/ \E vad \in {"speech", "silence", "error"} : CallbackFrame(e, vad)
        \/ Playback(e)
        \/ Stop(e)

SpecDuplex == InitDuplex /\ [][NextDuplex]_vars

\* Bursts: the playback workers of the duplex scenario and stop(), without the
\* capture callbacks
NextBurst ==
    \E e \in Engines :
        \/ Playback(e)
        \/ Stop(e)

\* Bursts under fair scheduling: the event loop of each engine keeps running its
\* playback coroutine: a sleep returns, a device call returns or raises.
\* Nothing is assumed of stop().
SpecBurstFair ==
    /\ InitDuplex
    /\ [][NextBurst]_vars
    /\ \A e \in Engines : WF_vars(Playback(e))

(***************************************************************************)
(* Properties of the segmenter, checked under SpecSeg.                     *)
(***************************************************************************)
\* the utterances an engine has emitted and nobody has taken yet
Emissions(e) == audio_queue[e] \o loop_calls[e]

\* the callback of e takes a frame in this step
TakesFrame(e) == frame_no'[e] = frame_no[e] + 1

\* the callback of e flushes its buffer in this step
Emits(e) == Len(loop_calls'[e]) > Len(loop_calls[e])

\* the utterance flushed in a step in which Emits(e) holds
Flushed(e) == loop_calls'[e][Len(loop_calls'[e])]

\* the number of silence frames an utterance ends with
RECURSIVE TrailingSilence(_)
TrailingSilence(u) ==
    IF u = <<>> \/ u[Len(u)].speech THEN 0
    ELSE 1 + TrailingSilence(SubSeq(u, 1, Len(u) - 1))

\* C2 as claimed: in every state in which the shared event is set, no utterance
\* is added to the audio_queue of any engine.
C2_NoUtteranceQueuedWhileEventSet ==
    [][shared_event =>
           \A e \in Engines : Len(audio_queue'[e]) <= Len(audio_queue[e])]_vars

\* C2 as amended: a capture callback that finds the shared event set when it tests
\* it returns at the test: it flushes no utterance, schedules no put_nowait and
\* adds nothing to audio_queue.  (The put_nowait of an utterance that an earlier
\* callback flushed is run by the event loop later and may add it to audio_queue
\* while the event is set.)
C2_InterlockedCallbackEmitsNothing ==
    [][\A e \in Engines :
           (TakesFrame(e) /\ shared_event) =>
               /\ loop_calls' = loop_calls
               /\ audio_queue' = audio_queue
               /\ cb_pc'[e] = "idle"]_vars

\* C2's case: the event is set and SENDER's callback has just returned at the
\* interlock, throwing away the frame and the speech buffered right before it.
C2_Witness ==
    /\ shared_event
    /\ cb_pc["SENDER"] = "idle"
    /\ lost["SENDER"] > 0
    /\ lost["SENDER"] = frame_no["SENDER"] - 1

\* C3: a callback that handles a frame while the shared event is set or the
\* engine's own is_playing_audio is true ends with the segmenter IDLE, the buffer
\* empty and the silence counter zero, and discards the frame; and no frame that
\* such a callback threw out of the buffer is part of the buffer or of an
\* utterance flushed afterwards.
C3_InterlockDiscardsPartialUtterance ==
    /\ [][\A e \in Engines :
              /\ (TakesFrame(e) /\ (shared_event \/ is_playing_audio[e])) =>
                     /\ ~triggered'[e]
                     /\ buffer'[e] = <<>>
                     /\ silence_counter'[e] = 0
                     /\ cb_pc'[e] = "idle"
                     /\ ~Emits(e)
              /\ Emits(e) =>
                     \A i \in DOMAIN Flushed(e) : Flushed(e)[i].id > lost[e]]_vars
    /\ [](\A e \in Engines :
              \A i \in DOMAIN buffer[e] : buffer[e][i].id > lost[e])

\* C3's case: an interlocked callback threw buffered frames away, and an
\* utterance made of later frames only has been flushed and queued since.
C3_Witness ==
    \E e \in Engines :
        /\ lost[e] > 0
        /\ audio_queue[e] # <<>>
        /\ audio_queue[e][1][1].id > lost[e]

\* C4: every utterance the segmenter emits holds a speech frame followed by at
\* least SUCCESSIVE_SILENCE_LIMIT (33) consecutive trailing silence frames, and
\* an engine that was fed no speech frame has emitted nothing and buffered nothing.
C4_UtteranceNeedsSpeechThenSilence ==
    \A e \in Engines :
        /\ \A k \in DOMAIN Emissions(e) :
               LET u == Emissions(e)[k]
               IN  /\ TrailingSilence(u) >= SUCCESSIVE_SILENCE_LIMIT
                   /\ \E i \in 1..(Len(u) - TrailingSilence(u)) : u[i].speech
        /\ speech_no[e] = 0 => (Emissions(e) = <<>> /\ buffer[e] = <<>>)

\* C4's case: SENDER was fed speech and then silence, and its utterance is queued.
C4_Witness ==
    /\ speech_no["SENDER"] > 0
    /\ audio_queue["SENDER"] # <<>>

\* consecutive frames of the device, in their order
Gapless(b) == \A i \in 1..(Len(b) - 1) : b[i + 1].id = b[i].id + 1

\* C19: no frame is lost once the callback is past the interlock: a frame the
\* callback of a running engine classifies as speech is appended to the buffer;
\* after every step of the callback the buffer holds exactly the frames from a
\* speech frame up to the latest frame handled, in arrival order and with no
\* gap; and an utterance is emitted as the whole buffer followed by the silence
\* frame that closes it.
C19_NoFrameLostFromFirstSpeech ==
    [][\A e \in Engines :
          (frame_no'[e] # frame_no[e] \/ cb_pc'[e] # cb_pc[e]) =>
              LET b == buffer'[e]
                  latest == IF cb_pc'[e] # "idle" THEN frame_no'[e] - 1 ELSE frame_no'[e]
              IN  /\ Gapless(b)
                  /\ b # <<>> => b[1].speech /\ b[Len(b)].id = latest
                  /\ speech_no'[e] > speech_no[e] =>
                         b = Append(buffer[e], Frame(frame_no[e], TRUE))
                  /\ Emits(e) =>
                         /\ Flushed(e) = Append(buffer[e], Frame(frame_no[e], FALSE))
                         /\ Gapless(Flushed(e))
                         /\ Flushed(e)[1].speech]_vars

\* C19's case: a callback of SENDER threw buffered speech away at the interlock,
\* the interlock was released, and SENDER has since captured and emitted a whole
\* utterance while the event is clear and SENDER is not playing.
C19_Witness ==
    /\ ~shared_event
    /\ ~is_playing_audio["SENDER"]
    /\ lost["SENDER"] > 0
    /\ Emissions("SENDER") # <<>>
    /\ LET u == Emissions("SENDER")[Len(Emissions("SENDER"))]
       IN  u[1].id > lost["SENDER"] /\ Len(u) = UtteranceLen

\* C21: a speech frame that arrives while trailing silence is being counted
\* does not cancel the utterance: it is appended to the buffer, which keeps
\* every frame it held, the segmenter stays triggered and the count starts
\* again; and whenever the silence counter then exceeds the limit the utterance
\* is emitted, with every frame of the buffer in it.
C21_SpeechDuringDrainingKeepsUtterance ==
    [][\A e \in Engines :
          cb_pc[e] = "body" =>
              /\ (triggered[e] /\ silence_counter[e] > 0
                      /\ speech_no'[e] > speech_no[e]) =>
                     /\ triggered'[e]
                     /\ buffer'[e] = Append(buffer[e], Frame(frame_no[e], TRUE))
                     /\ silence_counter'[e] = 0
                     /\ ~Emits(e)
              /\ (triggered[e] /\ silence_counter[e] = SUCCESSIVE_SILENCE_LIMIT
                      /\ cb_pc'[e] = "idle" /\ speech_no'[e] = speech_no[e]) =>
                     /\ Emits(e)
                     /\ SubSeq(Flushed(e), 1, Len(buffer[e])) = buffer[e]]_vars

\* C21's case: SENDER has emitted an utterance of a speech frame, a silence
\* frame, a second speech frame and the closing silence.
C21_Witness ==
    \E k \in DOMAIN Emissions("SENDER") :
        LET u == Emissions("SENDER")[k]
        IN  /\ u[1].speech /\ ~u[2].speech /\ u[3].speech
            /\ TrailingSilence(u) = Len(u) - 3

\* C22: frames that are in the buffer when stop() is called are discarded: once
\* stop() has been called (is_running is false) the callback flushes no
\* utterance, so none with those frames is put on the utterance queue.
C22_NoFlushAfterStop ==
    [][\A e \in Engines : ~is_running[e] => ~Emits(e)]_vars

\* C20 as claimed: the utterance is emitted on the frame on which the silence
\* counter reaches SUCCESSIVE_SILENCE_LIMIT (33): the counter is never left at
\* 33, and every emitted utterance ends with exactly 33 silence frames.
C20_EmittedOnLimitFrame ==
    \A e \in Engines :
        /\ silence_counter[e] < SUCCESSIVE_SILENCE_LIMIT
        /\ \A k \in DOMAIN Emissions(e) :
               TrailingSilence(Emissions(e)[k]) = SUCCESSIVE_SILENCE_LIMIT

\* C20 as amended: the utterance is emitted on the frame on which the silence
\* counter exceeds SUCCESSIVE_SILENCE_LIMIT, the 34th consecutive silence frame,
\* neither earlier nor later: the counter is the number of silence frames the
\* buffer ends with and is never left above 33, every emitted utterance ends
\* with exactly 34 silence frames, and a segmenter that is not triggered has an
\* empty buffer and a zero counter.
C20_EmittedOnFrameAfterLimit ==
    \A e \in Engines :
        /\ silence_counter[e] = TrailingSilence(buffer[e])
        /\ silence_counter[e] <= SUCCESSIVE_SILENCE_LIMIT
        /\ \A k \in DOMAIN Emissions(e) :
               TrailingSilence(Emissions(e)[k]) = SUCCESSIVE_SILENCE_LIMIT + 1
        /\ ~triggered[e] => buffer[e] = <<>> /\ silence_counter[e] = 0

\* C20's case: SENDER's callback has just flushed an utterance on its 34th
\* trailing silence frame and is back in IDLE with an empty buffer.
C20_Witness ==
    /\ loop_calls["SENDER"] # <<>>
    /\ cb_pc["SENDER"] = "idle"
    /\ ~triggered["SENDER"]
    /\ buffer["SENDER"] = <<>>
    /\ LET u == loop_calls["SENDER"][Len(loop_calls["SENDER"])]
       IN  /\ u[Len(u)].id = frame_no["SENDER"]
           /\ TrailingSilence(u) = SUCCESSIVE_SILENCE_LIMIT + 1

(***************************************************************************)
(* Properties of the processor and of playback, checked under SpecPipe.    *)
(***************************************************************************)
\* the filter as the specification words it: non-empty, trimmed length >= 2,
\* not (trimmed, lower-cased) an ignored phrase, does not begin with "("
C5_PassesFilter(t) ==
    /\ ~t.none
    /\ t.s # <<>>
    /\ Len(Strip(t.s)) >= 2
    /\ Lower(Strip(t.s)) \notin ignored_phrases
    /\ t.s[1] # "("

\* the values of text that pass it
C5_Passing == {t \in {Transcribe(stt) : stt \in SttOutcomes} : C5_PassesFilter(t)}

\* the step in which the processor receives a transcript
ProcGetsTranscript(e) ==
    /\ proc_pc[e] = "stt"
    /\ proc_pc'[e] # "stt" \/ Len(audio_queue'[e]) < Len(audio_queue[e])

PcmOf(q) == SelectSeq(q, LAMBDA c : c # NoneChunk)

IsPrefix(a, b) == Len(a) <= Len(b) /\ SubSeq(b, 1, Len(a)) = a

\* C6: within one engine the PCM chunks are written in exactly the order in
\* which they were put on the playback queue; the chunks of one utterance are
\* written in FIFO order and contiguously, and every chunk of an utterance is
\* written before any chunk of an utterance the segmenter emitted later.
C6_WrittenInPutOrder ==
    \A e \in Engines :
        /\ IsPrefix(written[e], PcmOf(put_log[e]))
        /\ \A i, j \in DOMAIN written[e] :
               i < j =>
                   \/ written[e][i].utt < written[e][j].utt
                   \/ /\ written[e][i].utt = written[e][j].utt
                      /\ written[e][i].idx < written[e][j].idx
                      /\ \A k \in i..j : written[e][k].utt = written[e][i].utt

\* both chunks of the first utterance and a chunk of the second were written
C6_Witness ==
    /\ Len(written["SENDER"]) >= MaxChunks + 1
    /\ written["SENDER"][1].utt = written["SENDER"][MaxChunks].utt
    /\ written["SENDER"][1].utt # written["SENDER"][MaxChunks + 1].utt

(***************************************************************************)
(* Properties of shutdown, checked under SpecStop.                         *)
(***************************************************************************)
\* C8: once stop() has been called, the remaining PCM is abandoned: no chunk is
\* written to the output stream while is_running is false.
C8_NoWriteAfterStop ==
    [][\A e \in Engines : ~is_running[e] => written'[e] = written[e]]_vars

\* the three workers of e have ended after stop()
Terminated(e) ==
    /\ ~is_running[e]
    /\ prod_pc[e] = "done"
    /\ proc_pc[e] = "done"
    /\ PlayEnded(e)

\* C9: when the three workers of an engine have terminated after stop(), its
\* utterance queue and its playback queue are empty.
C9_QueuesDrainedAfterStop ==
    \A e \in Engines :
        Terminated(e) => audio_queue[e] = <<>> /\ output_queue[e] = <<>>

\* C10: while is_running is true neither the processor nor the playback worker
\* has terminated.
C10_WorkersLiveUntilStop ==
    \A e \in Engines : is_running[e] => proc_pc[e] # "done" /\ ~PlayEnded(e)

(***************************************************************************)
(* Properties of the interlock, checked under SpecDuplex.                  *)
(***************************************************************************)
\* e has set is_playing_audio and the shared event and has cleared neither
InBurst(e) == play_pc[e] \in {"drain", "sleep"}

\* C1: while either engine is inside a playback burst, no capture callback of
\* either engine appends a frame to its buffer or emits an utterance.
C1_NoCaptureDuringBurst ==
    [][(\E p \in Engines : InBurst(p)) =>
           \A e \in Engines : Len(buffer'[e]) <= Len(buffer[e]) /\ ~Emits(e)]_vars

\* C7: a playback worker that has ended has left its is_playing_audio false,
\* and once both playback workers have ended the shared event is clear.
C7_InterlockReleasedOnExit ==
    /\ \A e \in Engines : PlayEnded(e) => ~is_playing_audio[e]
    /\ (\A e \in Engines : PlayEnded(e)) => ~shared_event

\* SENDER's worker died of a write error, RECEIVER's left its loop after
\* stop() having played
C7_Witness ==
    /\ play_pc["SENDER"] = "dead"
    /\ put_log["SENDER"] # <<>>
    /\ play_pc["RECEIVER"] = "done"
    /\ written["RECEIVER"] # <<>>

(***************************************************************************)
(* Properties of error handling, checked under SpecPipe.                   *)
(***************************************************************************)
\* a provider call of e ends in an error in this step: the recognizer raised
\* (_transcribe returned None), the translator raised (_translate ended in its
\* except block), or the synthesizer's stream raised (None was put on the
\* playback queue)
ProviderRaises(e) ==
    \/ ProcGetsTranscript(e) /\ text'[e].none
    \/ proc_pc[e] = "mt" /\ proc_pc'[e] # "mt" /\ mt_error'[e]
    \/ Len(put_log'[e]) = Len(put_log[e]) + 1
           /\ put_log'[e][Len(put_log'[e])] = NoneChunk

\* C11: the step in which a provider raises for an utterance drops the
\* utterance (it is handed to no further stage and no PCM chunk is queued),
\* publishes a warning to the status sink, and the processor backs off instead
\* of taking the next utterance.
C11_ProviderErrorWarnsAndBacksOff ==
    [][\A e \in Engines :
          ProviderRaises(e) =>
              /\ Len(sink'[e]) = Len(sink[e]) + 1
              /\ proc_pc'[e] \notin {"stt", "mt", "tts"}
              /\ PcmOf(put_log'[e]) = PcmOf(put_log[e])]_vars

\* the call of _translate of e returns in this step
TranslationEnds(e) == proc_pc[e] = "mt" /\ proc_pc'[e] # "mt"

\* C12: when the translation of a transcript fails or comes back empty, the
\* utterance is dropped: no pair is published, the synthesizer is not called
\* and no chunk is put on the playback queue for it.
C12_FailedOrEmptyTranslationDrops ==
    [][\A e \in Engines :
          (TranslationEnds(e) /\ (mt_error'[e] \/ translated_text'[e] = <<>>)) =>
              /\ sink'[e] = sink[e]
              /\ proc_pc'[e] # "tts"
              /\ put_log'[e] = put_log[e]]_vars

(***************************************************************************)
(* Start-up and the lifecycle.                                             *)
(***************************************************************************)
\* no frame has been delivered and nothing is queued, played or published
NothingHeard ==
    /\ is_playing_audio = [e \in Engines |-> FALSE]
    /\ shared_event = FALSE
    /\ triggered = [e \in Engines |-> FALSE]
    /\ buffer = [e \in Engines |-> <<>>]
    /\ silence_counter = [e \in Engines |-> 0]
    /\ cb_pc = [e \in Engines |-> "idle"]
    /\ frame_no = [e \in Engines |-> 0]
    /\ speech_no = [e \in Engines |-> 0]
    /\ lost = [e \in Engines |-> 0]
    /\ loop_calls = [e \in Engines |-> <<>>]
    /\ audio_queue = [e \in Engines |-> <<>>]
    /\ audio_data = [e \in Engines |-> <<>>]
    /\ text = [e \in Engines |-> NoneText]
    /\ translated_text = [e \in Engines |-> <<>>]
    /\ tts_idx = [e \in Engines |-> 0]
    /\ output_queue = [e \in Engines |-> <<>>]
    /\ written = [e \in Engines |-> <<>>]
    /\ put_log = [e \in Engines |-> <<>>]
    /\ sink = [e \in Engines |-> <<>>]
    /\ mt_calls = [e \in Engines |-> <<>>]
    /\ mt_error = [e \in Engines |-> FALSE]
    /\ stop_event = [e \in Engines |-> FALSE]

\* Devices: start_translation has started both engines and no task has run
\* yet.  A device may fail to open; RECEIVER's input device, if it opens,
\* delivers MaxDuplexFrames frames; stop() may be called at any moment.
InitDevice ==
    /\ NothingHeard
    /\ is_running = [e \in Engines |-> TRUE]
    /\ tasks = [e \in Engines |-> OneOfEach]
    /\ prod_pc = [e \in Engines |-> "open"]
    /\ proc_pc = [e \in Engines |-> "wait"]
    /\ play_pc = [e \in Engines |-> "open"]
    /\ budget = [e \in Engines |-> IF e = "RECEIVER" THEN MaxDuplexFrames ELSE 0]

NextDevice ==
    \E e \in Engines :
        \/ ProducerOpen(e)
        \/ ProducerOpenFails(e)
        \/ ProducerExit(e)
        \/ CallbackEnter(e)
        \/ \E vad \in {"speech", "silence", "error"} : CallbackFrame(e, vad)
        \/ ProcWake(e)
        \/ PlayOpen(e)
        \/ PlayOpenFails(e)
        \/ PlayWake(e)
        \/ PlayIdle(e)
        \/ PlayExit(e)
        \/ PlayExcept(e)
        \/ Stop(e)

SpecDevice == InitDevice /\ [][NextDevice]_vars

(***************************************************************************)
(* Properties of device failures, checked under SpecDevice.                *)
(***************************************************************************)
\* C13: an engine whose input device could not be opened is stopped
\* (is_running is false) and the failure has been published to its status
\* sink.
C13_CaptureFailureStopsEngine ==
    \A e \in Engines :
        prod_pc[e] = "failed" => ~is_running[e] /\ sink[e] # <<>>

(***************************************************************************)
(* The status sink: what main.py makes of a published pair.                *)
(***************************************************************************)
\* f"Original: {text} -> Translated: {translated_text}"
FormatPair(m) ==
    <<"O", "r", "i", "g", "i", "n", "a", "l", ":", " ">> \o m.text
        \o <<" ", "-", ">", " ", "T", "r", "a", "n", "s", "l", "a", "t", "e", "d", ":", " ">>
        \o m.translated_text

\* engine_name="SENDER", engine_name="RECEIVER"
EngineName(e) ==
    IF e = "SENDER" THEN <<"S", "E", "N", "D", "E", "R">>
    ELSE <<"R", "E", "C", "E", "I", "V", "E", "R">>

\* verbose_callback=lambda m: self.log(f"[You]: {m}") and f"[Them]: {m}";
\* log: self.log_queue.put(str(message) + "\n")
LogLine(e, s) ==
    (IF e = "SENDER" THEN <<"[", "Y", "o", "u", "]", ":", " ">>
     ELSE <<"[", "T", "h", "e", "m", "]", ":", " ">>) \o s \o <<"\n">>

\* s has p at position i
HasAt(s, i, p) == i + Len(p) - 1 <= Len(s) /\ SubSeq(s, i, i + Len(p) - 1) = p

\* re.search(r"\[(SENDER|RECEIVER)\] Original: (.*?) -> Translated: (.*)", msg):
\* the tag and " Original: " somewhere, and " -> Translated: " later in the
\* same line
ChatMatch(msg) ==
    \E i \in DOMAIN msg : \E n \in Engines :
        LET head == <<"[">> \o EngineName(n)
                        \o <<"]", " ", "O", "r", "i", "g", "i", "n", "a", "l", ":", " ">>
        IN  /\ HasAt(msg, i, head)
            /\ \E j \in (i + Len(head))..Len(msg) :
                   /\ HasAt(msg, j, <<" ", "-", ">", " ", "T", "r", "a", "n", "s", "l",
                                      "a", "t", "e", "d", ":", " ">>)
                   /\ \A k \in (i + Len(head))..(j - 1) : msg[k] # "\n"

(***************************************************************************)
(* Properties of the published pairs, checked under SpecPipe.              *)
(***************************************************************************)
\* C14: for every utterance that passed the filter and was translated, the
\* string delivered to the status sink is exactly
\* "[<engine>] Original: <src> -> Translated: <tgt>", and the line the consumer
\* reads matches its pattern.
C14_PairMatchesConsumerPattern ==
    \A e \in Engines : \A i \in DOMAIN sink[e] :
        /\ FormatPair(sink[e][i]) =
               <<"[">> \o EngineName(e) \o <<"]", " ">> \o FormatPair(sink[e][i])
        /\ ChatMatch(LogLine(e, FormatPair(sink[e][i])))

(***************************************************************************)
(* The lifecycle, checked under SpecLife.                                  *)
(***************************************************************************)
\* __init__: is_running = False; no task exists
NoTask == [producer_task |-> 0, processor_task |-> 0, player_task |-> 0]

Constructed ==
    /\ NothingHeard
    /\ is_running = [e \in Engines |-> FALSE]
    /\ tasks = [e \in Engines |-> NoTask]
    /\ prod_pc = [e \in Engines |-> "new"]
    /\ proc_pc = [e \in Engines |-> "new"]
    /\ play_pc = [e \in Engines |-> "new"]
    /\ budget = [e \in Engines |-> 0]

\* Lifecycle: two constructed engines; start() and stop() may be called on
\* either at any moment, up to MaxStarts calls of start() each; a device may
\* fail to open and delivers no frame.
NextLife ==
    \E e \in Engines :
        \/ Start(e)
        \/ Stop(e)
        \/ ProducerOpen(e)
        \/ ProducerOpenFails(e)
        \/ ProducerExit(e)
        \/ ProcWake(e)
        \/ PlayOpen(e)
        \/ PlayOpenFails(e)
        \/ PlayWake(e)
        \/ PlayIdle(e)
        \/ PlayExit(e)
        \/ PlayExcept(e)

SpecLife == Constructed /\ [][NextLife]_vars

\* C15: start() is idempotent: a call of start() on an engine that is running
\* creates no worker, so the engine keeps exactly one capture task, one
\* processor and one playback worker.
C15_StartOnRunningEngineCreatesNoTask ==
    [][\A e \in Engines : is_running[e] => tasks'[e] = tasks[e]]_vars

\* C16: the lifecycle only moves forward: an engine that has been started and
\* on which stop() has been called (it has tasks and is_running is false) is
\* never running again and gets no new worker.
C16_NoRestartAfterStop ==
    [][\A e \in Engines :
          (~is_running[e] /\ tasks[e] # NoTask) =>
              ~is_running'[e] /\ tasks'[e] = tasks[e]]_vars

(***************************************************************************)
(* Properties of two playing engines, checked under SpecDuplex.            *)
(***************************************************************************)
\* C17: at most one engine plays at a time: in no reachable state are both
\* engines inside a playback burst.
C17_OneEnginePlaysAtATime ==
    \A e, p \in Engines : InBurst(e) /\ InBurst(p) => e = p

\* e has executed shared_event.set() and not yet its shared_event.clear()
Holds(e) == play_pc[e] \in {"drain", "sleep", "fin", "raise", "rfin"}

\* C18: when both engines have acquired the interlock, it stays held until the
\* last of them releases: no step taken while both are between their acquire
\* and their release (the release by the first of them is such a step) leaves
\* the shared event clear.
C18_HeldUntilLastRelease ==
    [][(\A e \in Engines : Holds(e)) => shared_event']_vars

\* C23: when the translator's answer cannot be parsed, _translate returns the
\* source text unchanged instead of raising: while the last finished translation
\* is one that ended in the except block, translated_text is the transcript
\* _translate was called with, the pair published for it has that text on both
\* sides, and the processor goes on to synthesize it.
C23_UnparsableAnswerPassesSourceThrough ==
    \A e \in Engines :
        mt_error[e] =>
            /\ sink[e] # <<>>
            /\ sink[e][Len(sink[e])] = PairMessage(translated_text[e], translated_text[e])
            /\ proc_pc[e] # "mt" => /\ mt_calls[e] # <<>>
                                    /\ translated_text[e] = mt_calls[e][Len(mt_calls[e])]
            /\ proc_pc[e] = "tts" => text[e] = Str(translated_text[e])

\* C23's case: the translator's answer to "You too" could not be parsed and
\* SENDER's processor is synthesizing "You too"
C23_Witness ==
    /\ mt_error["SENDER"]
    /\ proc_pc["SENDER"] = "tts"
    /\ translated_text["SENDER"] = SampleText

(***************************************************************************)
(* The amplitude floor.  Levels are in thousandths of full scale.          *)
(***************************************************************************)

\* self.silence_threshold = 0.01
silence_threshold == 10

\* rms = np.sqrt(np.mean(indata**2)) of a frame: a frame the VAD takes for
\* speech is at 0.1 of full scale here, the silence of a quiet room at 0.001
Rms(f) == IF f.speech THEN 100 ELSE 1

RECURSIVE SumRms(_)
SumRms(u) == IF u = <<>> THEN 0 ELSE Rms(Head(u)) + SumRms(Tail(u))

\* mean of the RMS of the frames of utterance u
MeanRms(u) == SumRms(u) \div Len(u)

\* C24: an utterance whose frames have a mean RMS below the floor is dropped
\* after segmentation: the recognizer is never called with it.
C24_QuietUtteranceNeverTranscribed ==
    \A e \in Engines :
        proc_pc[e] = "stt" => MeanRms(audio_data[e]) >= silence_threshold

(***************************************************************************)
(* No retry, checked under SpecProc.                                       *)
(***************************************************************************)

\* utterances the processor of e has taken from audio_queue so far
Taken(e) == frame_no[e] \div UtteranceLen - Len(loop_calls[e]) - Len(audio_queue[e])

\* the chunks a log of puts holds form one stream per utterance: a stream
\* starts with chunk 1 of an utterance no earlier chunk belongs to, and every
\* further chunk follows its predecessor directly
OneStreamEach(log) ==
    \A i \in DOMAIN log :
        log[i] # NoneChunk =>
            IF log[i].idx = 1
            THEN \A j \in 1..(i - 1) : log[j].utt # log[i].utt
            ELSE i > 1 /\ log[i - 1] = Chunk(log[i].utt, log[i].idx - 1)

\* C25: no utterance is retried: an utterance the processor has taken is never
\* on the utterance queue again, there are at most as many translation requests,
\* published pairs and failed streams as utterances taken, every utterance has
\* at most one synthesis stream, and the chunks a failed stream had delivered
\* stay on the playback queue until they are written.
C25_NoUtteranceRetried ==
    \A e \in Engines :
        /\ audio_data[e] # <<>> =>
               \A i \in DOMAIN (audio_queue[e] \o loop_calls[e]) :
                   (audio_queue[e] \o loop_calls[e])[i][1].id > audio_data[e][1].id
        /\ Len(mt_calls[e]) <= Taken(e)
        /\ Len(sink[e]) <= Taken(e)
        /\ Len(put_log[e]) - Len(PcmOf(put_log[e])) <= Taken(e)
        /\ OneStreamEach(put_log[e])
        /\ PcmOf(put_log[e]) = written[e] \o PcmOf(output_queue[e])

\* C25's case: the stream of the first utterance failed after its first chunk,
\* that chunk is still on the playback queue, and the processor has gone on to
\* the second utterance
C25_Witness ==
    /\ Len(output_queue["SENDER"]) >= 2
    /\ output_queue["SENDER"][1] = Chunk(1, 1)
    /\ output_queue["SENDER"][2] = NoneChunk
    /\ audio_data["SENDER"] = Utterance(2)
    /\ proc_pc["SENDER"] = "tts"

(***************************************************************************)
(* The interlock over one utterance, checked under SpecPipe.               *)
(***************************************************************************)

C27_ClearsOnlyOwnHold ==
    [][\A e \in Engines :
          (play_pc'[e] # play_pc[e] /\ shared_event /\ ~shared_event') => Holds(e)]_vars

\* C29: self-deafening: an engine writes a PCM chunk only with its own
\* is_playing_audio set, and a callback of an engine that finds that flag set
\* returns without the frame: the segmenter is reset, nothing is buffered and
\* nothing is flushed, whether the shared event is set or not.
C29_SelfDeafening ==
    [][\A e \in Engines :
          /\ written'[e] # written[e] => is_playing_audio[e] /\ is_playing_audio'[e]
          /\ (TakesFrame(e) /\ is_playing_audio[e]) =>
                 /\ cb_pc'[e] = "idle"
                 /\ buffer'[e] = <<>>
                 /\ ~triggered'[e]
                 /\ silence_counter'[e] = 0
                 /\ ~Emits(e)]_vars

\* C29's case: the shared event has never been set (SENDER's playback worker has
\* not run yet, RECEIVER is in its first burst, between setting its flag and
\* setting the event), and a callback of RECEIVER has thrown away the speech
\* it had buffered
C29_Witness ==
    /\ play_pc["SENDER"] = "open"
    /\ play_pc["RECEIVER"] = "acq"
    /\ written["RECEIVER"] = <<>>
    /\ is_playing_audio["RECEIVER"]
    /\ ~shared_event
    /\ lost["RECEIVER"] > 0
    /\ buffer["RECEIVER"] = <<>>

(***************************************************************************)
(* Liveness.                                                               *)
(***************************************************************************)

\* C28: every playback burst terminates: an engine that has set its
\* is_playing_audio and the shared event reaches the point just after its
\* release: its flag is clear and its shared_event.clear() has been executed.
C28_BurstTerminates ==
    \A e \in Engines :
        (play_pc[e] = "drain" /\ is_playing_audio[e])
            ~> (play_pc[e] \in {"loop", "exc"} /\ ~is_playing_audio[e] /\ ~shared_event)

\* C28's case: SENDER, still running, is back at the top of its loop after a
\* burst in which it wrote PCM; its flag and the event are clear
C28_Witness ==
    /\ play_pc["SENDER"] = "loop"
    /\ is_running["SENDER"]
    /\ written["SENDER"] # <<>>
    /\ ~is_playing_audio["SENDER"]
    /\ ~shared_event

\* The pipeline under fair scheduling: the event loop keeps running the calls
\* scheduled on it and its two consumers: a sleep returns, a provider call
\* returns or raises, a device call returns or raises.  Nothing is assumed of
\* stop().
SpecStopFair ==
    /\ SpecStop
    /\ WF_vars(LoopCall("SENDER"))
    /\ WF_vars(Processor("SENDER"))
    /\ WF_vars(Playback("SENDER"))

\* the PCM chunks a TTS stream can deliver for the utterances of the scenario
PcmChunks == {Chunk(Utterance(k)[1].id, i) : k \in 1..MaxUtterances, i \in 1..MaxChunks}

\* x is an item of q
In(x, q) == \E i \in DOMAIN q : q[i] = x

\* C30: if an engine is never stopped, every PCM chunk the processor puts on
\* the playback queue is eventually written to the output stream, and every
\* utterance put on the utterance queue is eventually taken by the processor.
C30_QueuesEventuallyServed ==
    \A e \in Engines :
        ([]is_running[e]) =>
            /\ \A c \in PcmChunks : In(c, output_queue[e]) ~> In(c, written[e])
            /\ \A k \in 1..MaxUtterances :
                   In(Utterance(k), audio_queue[e])
                       ~> (audio_data[e] = Utterance(k) /\ ~In(Utterance(k), audio_queue[e]))

====
